---- MODULE Spec2Model ----
(***************************************************************************)
(* Model of src/buzz.ts: the HuffmanCompression class (tree construction,  *)
(* code generation, encoding, decoding) and the pipeline that              *)
(* demonstrateHuffmanCompression runs over it.                             *)
(*                                                                         *)
(* A text is a sequence of one-character strings, a bit string a sequence  *)
(* of "0"/"1".  HuffmanTreeNode objects live in a heap `nodes`: a node's   *)
(* reference is its index, which is also its creation order; Null (0) is   *)
(* the null reference and Undefined (-1) the value of an out-of-range      *)
(* array read.                                                             *)
(***************************************************************************)
EXTENDS Integers, Sequences, FiniteSets

VARIABLES nodes, root, encodingMap, op, arg, result,
          pc, sampleText, nodeQueue, encodedText, decodedText

vars == <<nodes, root, encodingMap, op, arg, result,
          pc, sampleText, nodeQueue, encodedText, decodedText>>

(* ------------------------------ bounds -------------------------------- *)

\* Spec: alphabet size and length of the texts given to buildHuffmanTree and
\* encodeText (MaxLen is also the length of encodeText's argument in SpecEncode)
NumSymbols == 2
MaxLen == 2
\* Spec: length of the bit strings given to decodeText
MaxBits == 2
\* SpecDemo, SpecEncode: alphabet size and length of sampleText
DemoSymbols == 3
DemoLen == 5

Alphabet == <<"a", "b", "c", "d", "e", "f">>

Min(x, y) == IF x < y THEN x ELSE y

Symbols(n) == {Alphabet[i] : i \in 1..Min(n, Len(Alphabet))}

Texts(n, len) == UNION {[1..k -> Symbols(n)] : k \in 0..len}

BitStrings == UNION {[1..k -> {"0", "1"}] : k \in 0..MaxBits}

(* ------------------------- HuffmanTreeNode ---------------------------- *)

Null == 0

Undefined == -1

\* JavaScript truthiness of a node reference (!node is ~Truthy(node))
Truthy(node) == node # Null /\ node # Undefined

HuffmanTreeNode(character, frequency, leftChild, rightChild) ==
    [character |-> character, frequency |-> frequency,
     leftChild |-> leftChild, rightChild |-> rightChild]

(* ------------------- calculateCharacterFrequencies -------------------- *)

\* A Map is the sequence of its entries in insertion order.
MapHas(m, key) == \E i \in 1..Len(m) : m[i].key = key

MapGet(m, key) == (CHOOSE i \in 1..Len(m) : m[i].key = key)

MapSet(m, key, value) ==
    IF MapHas(m, key)
    THEN [m EXCEPT ![MapGet(m, key)].value = value]
    ELSE Append(m, [key |-> key, value |-> value])

\* Mutant: frequencyMap.set(char, 1), the running count is dropped.
RECURSIVE CountFromNoSum(_, _, _)
CountFromNoSum(text, i, frequencyMap) ==
    IF i > Len(text) THEN frequencyMap
    ELSE CountFromNoSum(text, i + 1, MapSet(frequencyMap, text[i], 1))

RECURSIVE CountFrom(_, _, _)
CountFrom(text, i, frequencyMap) ==
    IF i > Len(text) THEN frequencyMap
    ELSE LET char == text[i]
             old == IF MapHas(frequencyMap, char)
                    THEN frequencyMap[MapGet(frequencyMap, char)].value
                    ELSE 0
         IN  CountFrom(text, i + 1, MapSet(frequencyMap, char, old + 1))

\* Mutant of the method: it counts with CountFromNoSum.
calculateFrequenciesNoSum(text) == CountFromNoSum(text, 1, <<>>)

calculateCharacterFrequencies(text) == CountFrom(text, 1, <<>>)

(* ----------------------- createInitialNodeQueue ----------------------- *)

\* The leaves, allocated in entry order, and the queue of references to them.
createInitialNodeQueue(frequencyMap) ==
    [heap  |-> [i \in 1..Len(frequencyMap) |->
                  HuffmanTreeNode(frequencyMap[i].key, frequencyMap[i].value,
                                  Null, Null)],
     queue |-> [i \in 1..Len(frequencyMap) |-> i]]

(* --------------------------- buildHuffmanTree ------------------------- *)

\* Array.prototype.sort with (a, b) => a.frequency - b.frequency: stable,
\* so an element is inserted after every element that does not exceed it.
\* Mutant: an unstable sort, equal frequencies end up in reverse order.
RECURSIVE InsertSortedUnstable(_, _, _)
InsertSortedUnstable(heap, sorted, n) ==
    IF sorted = <<>> THEN <<n>>
    ELSE IF heap[n].frequency - heap[Head(sorted)].frequency <= 0
         THEN <<n>> \o sorted
         ELSE <<Head(sorted)>> \o InsertSortedUnstable(heap, Tail(sorted), n)

RECURSIVE InsertSorted(_, _, _)
InsertSorted(heap, sorted, n) ==
    IF sorted = <<>> THEN <<n>>
    ELSE IF heap[n].frequency - heap[Head(sorted)].frequency < 0
         THEN <<n>> \o sorted
         ELSE <<Head(sorted)>> \o InsertSorted(heap, Tail(sorted), n)

RECURSIVE SortFrom(_, _, _, _)
SortFrom(heap, queue, i, sorted) ==
    IF i > Len(queue) THEN sorted
    ELSE SortFrom(heap, queue, i + 1, InsertSorted(heap, sorted, queue[i]))

SortByFrequency(heap, queue) == SortFrom(heap, queue, 1, <<>>)

\* Mutant: the sort is left out, the first two of the queue are merged.
MergeStepUnsorted(heap, queue) ==
    LET leftChild  == queue[1]
        rightChild == queue[2]
        parentNode == HuffmanTreeNode("",
                          heap[leftChild].frequency + heap[rightChild].frequency,
                          leftChild, rightChild)
    IN  [heap  |-> Append(heap, parentNode),
         queue |-> Append(Tail(Tail(queue)), Len(heap) + 1)]

\* One iteration of the while loop: sort, shift, shift, new parent, push.
MergeStep(heap, queue) ==
    LET sorted     == SortByFrequency(heap, queue)
        leftChild  == sorted[1]
        rightChild == sorted[2]
        parentNode == HuffmanTreeNode("",
                          heap[leftChild].frequency + heap[rightChild].frequency,
                          leftChild, rightChild)
    IN  [heap  |-> Append(heap, parentNode),
         queue |-> Append(Tail(Tail(sorted)), Len(heap) + 1)]

RECURSIVE MergeLoop(_)
MergeLoop(s) ==
    IF Len(s.queue) > 1 THEN MergeLoop(MergeStep(s.heap, s.queue)) ELSE s

\* nodeQueue[0] of the final queue
FirstOf(queue) == IF Len(queue) > 0 THEN queue[1] ELSE Undefined

\* Mutant: if (nodeQueue.length) this.root = nodeQueue[0], so an empty
\* input keeps the tree of the previous call.
buildKeepingTreeOnEmpty(inputText) ==
    LET frequencyMap == calculateCharacterFrequencies(inputText)
        final        == MergeLoop(createInitialNodeQueue(frequencyMap))
    IN  IF Len(final.queue) > 0
        THEN [nodes |-> final.heap, root |-> final.queue[1]]
        ELSE [nodes |-> nodes, root |-> root]

\* The whole method: the heap of the nodes it allocates and the new this.root.
buildHuffmanTree(inputText) ==
    LET frequencyMap == calculateCharacterFrequencies(inputText)
        final        == MergeLoop(createInitialNodeQueue(frequencyMap))
    IN  [nodes |-> final.heap, root |-> FirstOf(final.queue)]

(* ------------------------- generateHuffmanCodes ----------------------- *)

\* this.encodingMap[key] = code, on an object used as a dictionary
SetCode(map, key, code) ==
    [k \in DOMAIN map \cup {key} |-> IF k = key THEN code ELSE map[k]]

\* Mutant: '0' is appended on the way right as well.
RECURSIVE generateCodesSameBit(_, _, _, _)
generateCodesSameBit(heap, node, code, map) ==
    IF ~Truthy(node) THEN map
    ELSE LET here  == IF heap[node].character # ""
                      THEN SetCode(map, heap[node].character, code)
                      ELSE map
             left  == generateCodesSameBit(heap, heap[node].leftChild,
                                           Append(code, "0"), here)
         IN  generateCodesSameBit(heap, heap[node].rightChild,
                                  Append(code, "0"), left)

RECURSIVE generateCodesRecursively(_, _, _, _)
generateCodesRecursively(heap, node, code, map) ==
    IF ~Truthy(node) THEN map
    ELSE LET here  == IF heap[node].character # ""
                      THEN SetCode(map, heap[node].character, code)
                      ELSE map
             left  == generateCodesRecursively(heap, heap[node].leftChild,
                                               Append(code, "0"), here)
         IN  generateCodesRecursively(heap, heap[node].rightChild,
                                      Append(code, "1"), left)

\* Mutant: this.encodingMap = {} is left out.
generateWithoutReset(heap, rootNode, oldMap) ==
    generateCodesRecursively(heap, rootNode, <<>>, oldMap)

\* The whole method: the new this.encodingMap, given the old one.
generateHuffmanCodes(heap, rootNode, oldMap) ==
    generateCodesRecursively(heap, rootNode, <<>>, <<>>)

(* ------------------------------ encodeText ---------------------------- *)

\* Mutant: the || '' is left out, a missing code is appended as the text
\* of the undefined value.
CodeOrUndefined(map, char) ==
    IF char \in DOMAIN map THEN map[char]
    ELSE <<"u", "n", "d", "e", "f", "i", "n", "e", "d">>

\* this.encodingMap[char] || ''
CodeOrEmpty(map, char) ==
    IF char \in DOMAIN map /\ map[char] # <<>> THEN map[char] ELSE <<>>

RECURSIVE EncodeFrom(_, _, _, _)
EncodeFrom(map, inputText, i, encoded) ==
    IF i > Len(inputText) THEN encoded
    ELSE EncodeFrom(map, inputText, i + 1,
                    encoded \o CodeOrEmpty(map, inputText[i]))

encodeText(map, inputText) == EncodeFrom(map, inputText, 1, <<>>)

(* ------------------------------ decodeText ---------------------------- *)

\* Mutant: if (!currentNode) break is left out; reading a child of an absent
\* node throws, and the call ends with the TypeError instead of a text.
RECURSIVE DecodeFromNoGuard(_, _, _, _, _, _)
DecodeFromNoGuard(heap, rootNode, bits, i, currentNode, decoded) ==
    IF i > Len(bits) THEN decoded
    ELSE IF ~Truthy(currentNode) THEN <<"TypeError">>
    ELSE LET moved == IF bits[i] = "0" THEN heap[currentNode].leftChild
                                        ELSE heap[currentNode].rightChild
         IN  IF Truthy(moved) /\ heap[moved].character # ""
             THEN DecodeFromNoGuard(heap, rootNode, bits, i + 1, rootNode,
                                    Append(decoded, heap[moved].character))
             ELSE DecodeFromNoGuard(heap, rootNode, bits, i + 1, moved, decoded)

RECURSIVE DecodeFrom(_, _, _, _, _, _)
DecodeFrom(heap, rootNode, bits, i, currentNode, decoded) ==
    IF i > Len(bits) THEN decoded
    ELSE IF ~Truthy(currentNode) THEN decoded
    ELSE LET moved == IF bits[i] = "0" THEN heap[currentNode].leftChild
                                        ELSE heap[currentNode].rightChild
         IN  IF Truthy(moved) /\ heap[moved].character # ""
             THEN DecodeFrom(heap, rootNode, bits, i + 1, rootNode,
                             Append(decoded, heap[moved].character))
             ELSE DecodeFrom(heap, rootNode, bits, i + 1, moved, decoded)

decodeText(heap, rootNode, encoded) ==
    DecodeFrom(heap, rootNode, encoded, 1, rootNode, <<>>)

(* ------------------- one HuffmanCompression object -------------------- *)

\* The fields after construction; op/arg/result record the last call made.
Init ==
    /\ nodes = <<>>
    /\ root = Null
    /\ encodingMap = <<>>
    /\ op = "new"
    /\ arg = <<>>
    /\ result = <<>>
    /\ pc = "object"
    /\ sampleText = <<>>
    /\ nodeQueue = <<>>
    /\ encodedText = <<>>
    /\ decodedText = <<>>

CallBuildHuffmanTree ==
    \E inputText \in Texts(NumSymbols, MaxLen) :
        LET built == buildHuffmanTree(inputText)
        IN  /\ nodes' = built.nodes
            /\ root' = built.root
            /\ op' = "buildHuffmanTree"
            /\ arg' = inputText
            /\ result' = <<>>
            /\ UNCHANGED <<encodingMap, pc, sampleText, nodeQueue,
                           encodedText, decodedText>>

CallGenerateHuffmanCodes ==
    /\ encodingMap' = generateHuffmanCodes(nodes, root, encodingMap)
    /\ op' = "generateHuffmanCodes"
    /\ arg' = <<>>
    /\ result' = <<>>
    /\ UNCHANGED <<nodes, root, pc, sampleText, nodeQueue,
                   encodedText, decodedText>>

\* Mutant: this.encodingMap[char] ||= '', a missing code is stored.
CallEncodeTextStoring ==
    \E inputText \in Texts(NumSymbols, MaxLen) :
        /\ result' = encodeText(encodingMap, inputText)
        /\ encodingMap' =
               [c \in DOMAIN encodingMap \cup {inputText[i] : i \in 1..Len(inputText)}
                  |-> IF c \in DOMAIN encodingMap THEN encodingMap[c] ELSE <<>>]
        /\ op' = "encodeText"
        /\ arg' = inputText
        /\ UNCHANGED <<nodes, root, pc, sampleText, nodeQueue,
                       encodedText, decodedText>>

CallEncodeText ==
    \E inputText \in Texts(NumSymbols, MaxLen) :
        /\ result' = encodeText(encodingMap, inputText)
        /\ op' = "encodeText"
        /\ arg' = inputText
        /\ UNCHANGED <<nodes, root, encodingMap, pc, sampleText, nodeQueue,
                       encodedText, decodedText>>

CallDecodeText ==
    \E bits \in BitStrings :
        /\ result' = decodeText(nodes, root, bits)
        /\ op' = "decodeText"
        /\ arg' = bits
        /\ UNCHANGED <<nodes, root, encodingMap, pc, sampleText, nodeQueue,
                       encodedText, decodedText>>

Next ==
    \/ CallBuildHuffmanTree
    \/ CallGenerateHuffmanCodes
    \/ CallEncodeText
    \/ CallDecodeText

Spec == Init /\ [][Next]_vars

(* ------------------- demonstrateHuffmanCompression -------------------- *)

\* The driver on a fresh object, for any sampleText; buildHuffmanTree is
\* followed statement by statement, pc naming the statement to run next.
InitDemo ==
    /\ sampleText \in Texts(DemoSymbols, DemoLen)
    /\ nodes = <<>>
    /\ root = Null
    /\ encodingMap = <<>>
    /\ op = "new"
    /\ arg = <<>>
    /\ result = <<>>
    /\ pc = "build"
    /\ nodeQueue = <<>>
    /\ encodedText = <<>>
    /\ decodedText = <<>>

\* lines 37-40: frequencies and the initial queue
BuildStart ==
    /\ pc = "build"
    /\ LET initial == createInitialNodeQueue(
                          calculateCharacterFrequencies(sampleText))
       IN  /\ nodes' = initial.heap
           /\ nodeQueue' = initial.queue
    /\ pc' = "loop"
    /\ op' = "buildHuffmanTree"
    /\ arg' = sampleText
    /\ UNCHANGED <<root, encodingMap, result, sampleText,
                   encodedText, decodedText>>

\* lines 43-61: one iteration of the while loop
BuildMerge ==
    /\ pc = "loop"
    /\ Len(nodeQueue) > 1
    /\ LET merged == MergeStep(nodes, nodeQueue)
       IN  /\ nodes' = merged.heap
           /\ nodeQueue' = merged.queue
    /\ UNCHANGED <<root, encodingMap, op, arg, result, pc, sampleText,
                   encodedText, decodedText>>

\* line 64: the loop is over, this.root = nodeQueue[0]
BuildFinish ==
    /\ pc = "loop"
    /\ ~(Len(nodeQueue) > 1)
    /\ root' = FirstOf(nodeQueue)
    /\ pc' = "generate"
    /\ UNCHANGED <<nodes, encodingMap, op, arg, result, sampleText,
                   nodeQueue, encodedText, decodedText>>

\* line 179
DemoGenerate ==
    /\ pc = "generate"
    /\ encodingMap' = generateHuffmanCodes(nodes, root, encodingMap)
    /\ pc' = "encode"
    /\ op' = "generateHuffmanCodes"
    /\ arg' = <<>>
    /\ UNCHANGED <<nodes, root, result, sampleText, nodeQueue,
                   encodedText, decodedText>>

\* line 181
DemoEncode ==
    /\ pc = "encode"
    /\ encodedText' = encodeText(encodingMap, sampleText)
    /\ result' = encodedText'
    /\ pc' = "decode"
    /\ op' = "encodeText"
    /\ arg' = sampleText
    /\ UNCHANGED <<nodes, root, encodingMap, sampleText, nodeQueue,
                   decodedText>>

\* line 184
DemoDecode ==
    /\ pc = "decode"
    /\ decodedText' = decodeText(nodes, root, encodedText)
    /\ result' = decodedText'
    /\ pc' = "done"
    /\ op' = "decodeText"
    /\ arg' = encodedText
    /\ UNCHANGED <<nodes, root, encodingMap, sampleText, nodeQueue,
                   encodedText>>

NextDemo ==
    \/ BuildStart
    \/ BuildMerge
    \/ BuildFinish
    \/ DemoGenerate
    \/ DemoEncode
    \/ DemoDecode

SpecDemo == InitDemo /\ [][NextDemo]_vars

(* ------------------- encodeText on any table and text ------------------ *)

\* encodeText as a function of the code table and its argument: the table is
\* the one generated for any sampleText, the argument any text, over one
\* symbol more than the texts a tree is built from.
InitEncode ==
    /\ sampleText \in Texts(DemoSymbols, DemoLen)
    /\ nodes = <<>>
    /\ root = Null
    /\ encodingMap = <<>>
    /\ op = "new"
    /\ arg = <<>>
    /\ result = <<>>
    /\ pc = "build"
    /\ nodeQueue = <<>>
    /\ encodedText = <<>>
    /\ decodedText = <<>>

EncodeBuild ==
    /\ pc = "build"
    /\ LET built == buildHuffmanTree(sampleText)
       IN  /\ nodes' = built.nodes
           /\ root' = built.root
    /\ pc' = "generate"
    /\ op' = "buildHuffmanTree"
    /\ arg' = sampleText
    /\ UNCHANGED <<encodingMap, result, sampleText, nodeQueue,
                   encodedText, decodedText>>

EncodeGenerate ==
    /\ pc = "generate"
    /\ encodingMap' = generateHuffmanCodes(nodes, root, encodingMap)
    /\ pc' = "encode"
    /\ op' = "generateHuffmanCodes"
    /\ arg' = <<>>
    /\ UNCHANGED <<nodes, root, result, sampleText, nodeQueue,
                   encodedText, decodedText>>

EncodeAnyText ==
    /\ pc = "encode"
    /\ \E inputText \in Texts(DemoSymbols + 1, MaxLen) :
           /\ result' = encodeText(encodingMap, inputText)
           /\ arg' = inputText
    /\ pc' = "done"
    /\ op' = "encodeText"
    /\ UNCHANGED <<nodes, root, encodingMap, sampleText, nodeQueue,
                   encodedText, decodedText>>

NextEncode ==
    \/ EncodeBuild
    \/ EncodeGenerate
    \/ EncodeAnyText

SpecEncode == InitEncode /\ [][NextEncode]_vars

(* ======================= properties of the code ======================= *)

\* Notions the properties are stated in, defined without the operators above.

SymbolsOf(text) == {text[i] : i \in 1..Len(text)}

Count(text, c) == Cardinality({i \in 1..Len(text) : text[i] = c})

FirstIndex(text, c) == CHOOSE i \in 1..Len(text) :
                           text[i] = c /\ \A j \in 1..(i - 1) : text[j] # c

IsPrefix(s, t) == Len(s) <= Len(t) /\ SubSeq(t, 1, Len(s)) = s

IsLeaf(heap, n) == heap[n].leftChild = Null /\ heap[n].rightChild = Null

\* the nodes of the tree under n
RECURSIVE Subtree(_, _)
Subtree(heap, n) ==
    IF ~Truthy(n) THEN {}
    ELSE {n} \cup Subtree(heap, heap[n].leftChild)
             \cup Subtree(heap, heap[n].rightChild)

\* the bits on the way from top down to n, found by going up from n
RECURSIVE PathFrom(_, _, _)
PathFrom(heap, top, n) ==
    IF n = top THEN <<>>
    ELSE LET parent == CHOOSE q \in 1..Len(heap) :
                           heap[q].leftChild = n \/ heap[q].rightChild = n
         IN  Append(PathFrom(heap, top, parent),
                    IF heap[parent].leftChild = n THEN "0" ELSE "1")

\* the table that the tree under top stands for: each leaf's symbol to its path
TreeCodes(heap, top) ==
    LET leaves == {n \in Subtree(heap, top) : heap[n].character # ""}
    IN  [c \in {heap[n].character : n \in leaves} |->
            PathFrom(heap, top,
                     CHOOSE n \in leaves : heap[n].character = c)]

Built(p) == p \in {"generate", "encode", "decode", "done"}

Generated(p) == p \in {"encode", "decode", "done"}

(* C1: round trip.  For every non-empty sampleText, one distinct symbol    *)
(* included, what decodeText returns for encodeText(sampleText) after      *)
(* buildHuffmanTree(sampleText) and generateHuffmanCodes() is sampleText.  *)
C1_RoundTrip ==
    (pc = "done" /\ sampleText # <<>>) => decodedText = sampleText

(* C2: prefix-free codes.  In the table generated from the tree built for  *)
(* any input, the code of a symbol is not a prefix of the code of another  *)
(* symbol.                                                                 *)
C2_PrefixFree ==
    Generated(pc) =>
        /\ DOMAIN encodingMap = SymbolsOf(sampleText)
        /\ \A a, b \in DOMAIN encodingMap :
               a # b => ~IsPrefix(encodingMap[a], encodingMap[b])

C2_Witness ==
    /\ pc = "encode"
    /\ Cardinality(DOMAIN encodingMap) >= 3
    /\ \E a, b \in DOMAIN encodingMap : Len(encodingMap[a]) < Len(encodingMap[b])

(* C3, as claimed: in every state reachable by calls to buildHuffmanTree,  *)
(* generateHuffmanCodes, encodeText and decodeText, encodingMap is the     *)
(* table of the current tree.                                              *)
C3_TableNeverStale == encodingMap = TreeCodes(nodes, root)

(* C3, amended: every call of generateHuffmanCodes leaves encodingMap      *)
(* equal to the table of the current tree, and encodeText and decodeText   *)
(* keep it so; buildHuffmanTree alone does not rebuild the table.          *)
C3_TableFreshAfterGenerate ==
    [][ /\ op' = "generateHuffmanCodes"
            => encodingMap' = TreeCodes(nodes', root')
        /\ (op' \in {"encodeText", "decodeText"}
              /\ encodingMap = TreeCodes(nodes, root))
            => encodingMap' = TreeCodes(nodes', root') ]_vars

C3_Witness ==
    /\ op = "decodeText"
    /\ Truthy(root)
    /\ ~IsLeaf(nodes, root)
    /\ encodingMap = TreeCodes(nodes, root)

(* C4: code length ordering.  If a occurs strictly more often than b in    *)
(* the input, the code generated for a is not strictly longer than the     *)
(* code generated for b.                                                   *)
C4_CodeLengthOrdering ==
    Generated(pc) =>
        \A a, b \in SymbolsOf(sampleText) :
            Count(sampleText, a) > Count(sampleText, b) =>
                /\ a \in DOMAIN encodingMap
                /\ b \in DOMAIN encodingMap
                /\ Len(encodingMap[a]) <= Len(encodingMap[b])

C4_Witness ==
    /\ pc = "done"
    /\ \E a, b \in SymbolsOf(sampleText) :
           /\ Count(sampleText, a) > Count(sampleText, b)
           /\ Len(encodingMap[a]) < Len(encodingMap[b])

\* The decoder's walk, bit by bit: where it stands before bit i, and the node
\* bit i moves it to (absent once the walk has left the tree).
RECURSIVE StandsBefore(_, _, _, _)
MovesTo(heap, top, bits, i) ==
    LET from == StandsBefore(heap, top, bits, i)
    IN  IF ~Truthy(from) THEN from
        ELSE IF bits[i] = "0" THEN heap[from].leftChild
                              ELSE heap[from].rightChild

StandsBefore(heap, top, bits, i) ==
    IF i = 1 THEN top
    ELSE LET at == MovesTo(heap, top, bits, i - 1)
         IN  IF Truthy(at) /\ heap[at].character # "" THEN top ELSE at

\* bit i is the one that takes the walk off the tree
FallsOffAt(heap, top, bits, i) ==
    /\ Truthy(StandsBefore(heap, top, bits, i))
    /\ ~Truthy(MovesTo(heap, top, bits, i))

(* C5: decoder recovery.  If a bit moves the traversal to an absent child, *)
(* decodeText returns exactly the symbols emitted for the bits before it:  *)
(* no later bit contributes a symbol and no error is raised.               *)
C5_DecoderRecovery ==
    op = "decodeText" =>
        \A i \in 1..Len(arg) :
            FallsOffAt(nodes, root, arg, i) =>
                /\ result = decodeText(nodes, root, SubSeq(arg, 1, i - 1))
                /\ \A j \in 1..Len(result) :
                       result[j] \in {nodes[n].character : n \in 1..Len(nodes)}

C5_Witness ==
    /\ op = "decodeText"
    /\ \E i \in 1..Len(arg) : FallsOffAt(nodes, root, arg, i) /\ i < Len(arg)

\* the length of the code a table holds for c, nothing if it holds none
CodeLen(map, c) == IF c \in DOMAIN map THEN Len(map[c]) ELSE 0

\* where the code of the i-th symbol starts in the output: after the codes
\* of the symbols before it
RECURSIVE Offset(_, _, _)
Offset(map, text, i) ==
    IF i = 1 THEN 0
    ELSE Offset(map, text, i - 1) + CodeLen(map, text[i - 1])

RECURSIVE SumOver(_, _, _)
SumOver(set, text, map) ==
    IF set = {} THEN 0
    ELSE LET c == CHOOSE x \in set : TRUE
         IN  Count(text, c) * CodeLen(map, c) + SumOver(set \ {c}, text, map)

\* the table generated from the tree built for text
TableFor(text) ==
    LET built == buildHuffmanTree(text)
    IN  generateHuffmanCodes(built.nodes, built.root, <<>>)

(* C6: encoder result.  encodeText returns the codes of the input symbols  *)
(* that have an entry in the table, concatenated in input order; a symbol  *)
(* without an entry contributes nothing and the symbols after it are still *)
(* encoded.  With the table generated from the same input, the output      *)
(* length is the sum over symbols of occurrence count times code length.   *)
C6_EncoderResult ==
    op = "encodeText" =>
        /\ Len(result) = Offset(encodingMap, arg, Len(arg) + 1)
        /\ \A i \in 1..Len(arg) :
               arg[i] \in DOMAIN encodingMap =>
                   SubSeq(result, Offset(encodingMap, arg, i) + 1,
                                  Offset(encodingMap, arg, i + 1))
                       = encodingMap[arg[i]]
        /\ encodingMap = TableFor(arg) =>
               Len(result) = SumOver(SymbolsOf(arg), arg, encodingMap)

C6_Witness ==
    /\ op = "encodeText"
    /\ \E i, j \in 1..Len(arg) :
           /\ i < j
           /\ arg[i] \notin DOMAIN encodingMap
           /\ arg[j] \in DOMAIN encodingMap
           /\ encodingMap[arg[j]] # <<>>
           /\ result = encodingMap[arg[j]]

(* C7: empty input.  buildHuffmanTree("") leaves no tree, generating codes *)
(* from an absent tree gives an empty table, encodeText("") returns the    *)
(* empty bit sequence and decodeText("") without a tree the empty text.    *)
C7_EmptyInput ==
    /\ (op = "buildHuffmanTree" /\ arg = <<>>) => ~Truthy(root)
    /\ (op = "generateHuffmanCodes" /\ ~Truthy(root)) => encodingMap = <<>>
    /\ (op = "encodeText" /\ arg = <<>>) => result = <<>>
    /\ (op = "decodeText" /\ arg = <<>> /\ ~Truthy(root)) => result = <<>>

C7_Witness ==
    /\ op = "generateHuffmanCodes"
    /\ root = Undefined
    /\ encodingMap = <<>>

(* C8: tree shape.  For an input with k >= 1 distinct symbols the built    *)
(* tree has exactly k leaves, one per distinct symbol and carrying its     *)
(* occurrence count; for k >= 2 it has exactly k - 1 internal nodes, each  *)
(* with exactly two children; for k = 1 it is the single leaf.             *)
C8_TreeShape ==
    LET k        == Cardinality(SymbolsOf(sampleText))
        tree     == Subtree(nodes, root)
        leaves   == {n \in tree : IsLeaf(nodes, n)}
        internal == tree \ leaves
    IN  (Built(pc) /\ k >= 1) =>
            /\ Cardinality(leaves) = k
            /\ \A c \in SymbolsOf(sampleText) :
                   \E n \in leaves :
                       /\ nodes[n].character = c
                       /\ nodes[n].frequency = Count(sampleText, c)
            /\ k >= 2 =>
                   /\ Cardinality(internal) = k - 1
                   /\ \A n \in internal :
                          /\ nodes[n].character = ""
                          /\ Truthy(nodes[n].leftChild)
                          /\ Truthy(nodes[n].rightChild)
                          /\ nodes[n].leftChild # nodes[n].rightChild
            /\ k = 1 => (tree = {root} /\ IsLeaf(nodes, root))

C8_Witness ==
    /\ pc = "generate"
    /\ Cardinality(SymbolsOf(sampleText)) = 3
    /\ Cardinality(Subtree(nodes, root)) = 5
    /\ \E n \in 1..Len(nodes) : IsLeaf(nodes, n) /\ nodes[n].frequency >= 2

\* x is taken before y: smaller frequency first, creation order among equals
TakenBefore(heap, x, y) ==
    \/ heap[x].frequency < heap[y].frequency
    \/ heap[x].frequency = heap[y].frequency /\ x < y

\* An iteration of the build loop, as C9 describes it.
GreedyMerge ==
    (pc = "loop" /\ Len(nodeQueue) > 1) =>
        \E l, r \in {nodeQueue[i] : i \in 1..Len(nodeQueue)} :
            /\ TakenBefore(nodes, l, r)
            /\ \A c \in {nodeQueue[i] : i \in 1..Len(nodeQueue)} \ {l, r} :
                   TakenBefore(nodes, r, c)
            /\ nodes' = Append(nodes,
                   [character |-> "",
                    frequency |-> nodes[l].frequency + nodes[r].frequency,
                    leftChild |-> l, rightChild |-> r])
            /\ Len(nodeQueue') = Len(nodeQueue) - 1
            /\ {nodeQueue'[i] : i \in 1..Len(nodeQueue')}
                 = ({nodeQueue[i] : i \in 1..Len(nodeQueue)} \ {l, r})
                     \cup {Len(nodes) + 1}

\* The leaves are created in the order in which their symbols first appear.
LeavesInOrderOfAppearance ==
    pc = "loop" =>
        \A m, n \in 1..Len(nodes) :
            (m < n /\ IsLeaf(nodes, m) /\ IsLeaf(nodes, n)) =>
                FirstIndex(sampleText, nodes[m].character)
                    < FirstIndex(sampleText, nodes[n].character)

\* The end of the loop, as C9 describes it.
LoopEndsWithRoot ==
    /\ Len(nodeQueue) = 1
    /\ root = nodeQueue[1]
    /\ nodes[root].frequency = Len(sampleText)

(* C9, as claimed: every iteration of the build loop removes the two       *)
(* candidates of smallest frequency, ties broken by creation order (leaves *)
(* in order of first appearance, merged nodes after the nodes that existed *)
(* before them), and adds a node with the first as left child, the second  *)
(* as right child and the sum as frequency; the loop ends with exactly one *)
(* candidate, the root, whose frequency is the input length.               *)
C9_GreedyMergeAnyInput ==
    /\ [][GreedyMerge]_vars
    /\ [](LeavesInOrderOfAppearance)
    /\ [](pc = "generate" => LoopEndsWithRoot)

(* C9, amended: the iterations are as claimed; for a non-empty input the   *)
(* loop ends with exactly one candidate, the root, whose frequency is the  *)
(* input length, and for the empty input it ends with no candidate and no  *)
(* root.                                                                   *)
C9_GreedyMergeStep ==
    /\ [][GreedyMerge]_vars
    /\ [](LeavesInOrderOfAppearance)
    /\ []((pc = "generate" /\ sampleText # <<>>) => LoopEndsWithRoot)
    /\ []((pc = "generate" /\ sampleText = <<>>) =>
              (nodeQueue = <<>> /\ ~Truthy(root)))

C9_Witness ==
    /\ pc = "generate"
    /\ Len(nodes) = 5
    /\ nodes[4].frequency = nodes[3].frequency
    /\ nodes[5].leftChild = 3
    /\ nodes[5].rightChild = 4

(* C10: encode and decode are read-only.  encodeText and decodeText leave  *)
(* the tree (root and every node's character, frequency and children) and  *)
(* the code table unchanged, whatever the state and the argument.          *)
C10_ReadOnly ==
    [][op' \in {"encodeText", "decodeText"} =>
           (nodes' = nodes /\ root' = root /\ encodingMap' = encodingMap)]_vars

C10_Witness ==
    /\ op = "encodeText"
    /\ Truthy(root)
    /\ encodingMap # <<>>
    /\ \E i \in 1..Len(arg) : arg[i] \notin DOMAIN encodingMap

====
